---- MODULE Spec2Model ----
(***************************************************************************)
(* NupatAI backend: chats, messages and the message-send workflow.         *)
(*                                                                         *)
(* The persistent store is the PostgreSQL database behind SQLAlchemy       *)
(* sessions (autocommit off, READ COMMITTED): a request sees only what     *)
(* other requests have committed, and what it has flushed itself is        *)
(* discarded when its session is closed without a commit.                  *)
(*                                                                         *)
(* Text is a sequence of one-character strings, so that strip, split and   *)
(* join are computed as Python computes them.                              *)
(***************************************************************************)
EXTENDS Integers, Sequences, FiniteSets, TLC

VARIABLES
    chats,      \* table chats: id -> row (committed)
    messages,   \* table messages: set of rows (committed)
    nextChat,   \* number of chat ids handed out so far
    sends,      \* number of sends that reached their first INSERT
    now,        \* datetime.utcnow(), as read most recently
    coarse,     \* whether two readings of the clock may be equal
    sess,       \* per in-flight send_message request: its SQLAlchemy session
    provider,   \* the AI provider's calls of the last send: the messages it was
                \* passed and what it answered
    resp,       \* the last HTTP response sent
    users,      \* table users: set of rows (committed)
    pending     \* per in-flight signup request: what it is about to INSERT

vars == <<chats, messages, nextChat, sends, now, coarse, sess, provider, resp,
          users, pending>>

----------------------------------------------------------------------------
(* Bounds of the model *)

MaxChats == 1       \* chats ever created (Spec)
MaxSends == 2       \* sends that reach their INSERT (Spec, SpecList)
MaxListChats == 2   \* chats ever created (SpecList)
MaxTime == 3        \* readings of a coarse clock are 0..MaxTime (SpecList)
MaxPage == 2        \* pages asked for: 1..MaxPage
MaxCtxSends == 7    \* sends of the one-chat specification SpecCtx
MaxWords == 7       \* words of a provider title (SpecTitle)

(* Program constants *)

ContextWindow == 10     \* chat_history[-10:]
TitleMaxWords == 6      \* words[:6]
TitleMaxLen == 200      \* len(title) > 200
TitleCut == 197         \* title[:197] + "..."
MinPageSize == 1        \* Query(ge=1)
MaxPageSize == 100      \* Query(le=100)
DefaultPage == 1        \* page: Query(1, ...)
ChatsPageSize == 20     \* GET /chats: page_size Query(20, ...)
MessagesPageSize == 50  \* GET /chats/{chat_id}/messages: page_size Query(50, ...)
PasswordMinLen == 8     \* UserSignup.password: min_length=8
PhoneMinLen == 10       \* validate_phone: len(cleaned) < 10

Users == {"u1", "u2"}
Sessions == {"s1", "s2"}

----------------------------------------------------------------------------
(* Python str helpers, on sequences of characters *)

Whitespace == {" ", "\t"}
Quotes == {"\"", "'"}

Min(a, b) == IF a <= b THEN a ELSE b

\* s[:n]
Take(s, n) == SubSeq(s, 1, Min(n, Len(s)))

\* The positions of s that hold a character outside cs
Kept(s, cs) == {i \in 1..Len(s) : s[i] \notin cs}

\* str.lstrip(chars), str.rstrip(chars)
LStrip(s, cs) ==
    IF Kept(s, cs) = {} THEN <<>>
    ELSE SubSeq(s, CHOOSE i \in Kept(s, cs) : \A j \in Kept(s, cs) : i <= j, Len(s))

RStrip(s, cs) ==
    IF Kept(s, cs) = {} THEN <<>>
    ELSE SubSeq(s, 1, CHOOSE i \in Kept(s, cs) : \A j \in Kept(s, cs) : i >= j)

\* str.strip(chars); str.strip() is Strip(s, Whitespace)
Strip(s, cs) == RStrip(LStrip(s, cs), cs)

\* The positions where a run of non-whitespace characters of s begins
WordStarts(s) ==
    {i \in Kept(s, Whitespace) : i = 1 \/ s[i - 1] \in Whitespace}

\* The position where the run that begins at i ends
WordEnd(s, i) ==
    CHOOSE j \in i..Len(s) :
        /\ \A k \in i..j : s[k] \notin Whitespace
        /\ (j = Len(s) \/ s[j + 1] \in Whitespace)

\* str.split(): the maximal runs of non-whitespace characters, in order
Split(s) ==
    [n \in 1..Cardinality(WordStarts(s)) |->
        LET i == CHOOSE x \in WordStarts(s) :
                    Cardinality({y \in WordStarts(s) : y < x}) = n - 1
        IN SubSeq(s, i, WordEnd(s, i))]

\* " ".join(words)
RECURSIVE Join(_)
Join(ws) ==
    IF ws = <<>> THEN <<>>
    ELSE IF Len(ws) = 1 THEN ws[1]
    ELSE ws[1] \o <<" ">> \o Join(Tail(ws))

\* A division that rounds down
FloorDiv(a, b) == a \div b

\* math.ceil(a / b) for a >= 0, b >= 1
Ceil(a, b) == IF a % b = 0 THEN a \div b ELSE (a \div b) + 1

----------------------------------------------------------------------------
(* Text values *)

NewChat == <<"N", "e", "w", " ", "C", "h", "a", "t">>
SystemPrompt == <<"<", "N", "u", "p", "a", "t", "A", "I", ">">>

\* Optional[str]
None == [some |-> FALSE]
Some(s) == [some |-> TRUE, val |-> s]
\* Python truthiness of an Optional[str]
Truthy(o) == o.some /\ o.val # <<>>

\* MessageCreate.content: min_length=1
Contents == {<<"h", "i">>, <<"y", "o">>}
\* ChatCreate.title: Optional[str]
CreateTitles == {None, Some(<<>>), Some(<<"A">>)}
\* ChatUpdate.title: 1..200 characters
RenameTitles == {<<"R">>}

----------------------------------------------------------------------------
(* The store *)

MsgsOf(msgs, c) == {m \in msgs : m.chat_id = c}

SetMin(S) == CHOOSE x \in S : \A y \in S : x <= y
SetMax(S) == CHOOSE x \in S : \A y \in S : x >= y

\* ORDER BY created_at ASC: every order of the rows the database may return;
\* rows with equal created_at come in either order
RECURSIVE AscOrders(_)
AscOrders(S) ==
    IF S = {} THEN {<<>>}
    ELSE LET lo == SetMin({m.created_at : m \in S})
             firsts == {m \in S : m.created_at = lo}
         IN UNION {{<<m>> \o q : q \in AscOrders(S \ {m})} : m \in firsts}

\* ORDER BY updated_at DESC over the chat ids in C
RECURSIVE DescOrders(_, _)
DescOrders(ch, C) ==
    IF C = {} THEN {<<>>}
    ELSE LET hi == SetMax({ch[c].updated_at : c \in C})
             firsts == {c \in C : ch[c].updated_at = hi}
         IN UNION {{<<c>> \o q : q \in DescOrders(ch, C \ {c})} : c \in firsts}

\* .offset(offset).limit(limit)
Slice(q, offset, limit) == SubSeq(q, offset + 1, Min(offset + limit, Len(q)))

\* datetime.utcnow(), read after rows stamped up to `floor` were read back
\* from the database or after a call to the provider made at `floor`.  The
\* clock never runs backwards, and a reading that follows a round trip is later
\* than the stamps that round trip returned.  Nothing else keeps two readings
\* apart: with `coarse`, readings of requests that do not depend on one
\* another may be equal; without it the behaviours are those in which every
\* reading is later than the one before.
ReadClock(floor) ==
    IF coarse THEN {t \in {now, now + 1} : t > floor /\ t <= MaxTime}
    ELSE {now + 1}

\* A close that leaves what was flushed in the tables
SessionCloseKeepsFlushed(committed, flushed) == committed \cup flushed

\* Session.close() without commit: what was flushed is rolled back
SessionClose(committed, flushed) == committed

\* A commit that loses the rows of the unit of work
SessionCommitLosesRows(committed, flushed) == committed

\* Session.commit(): what was flushed and what is pending becomes visible
SessionCommit(committed, flushed) == committed \cup flushed

----------------------------------------------------------------------------
(* The AI provider (Groq) and AIService *)

\* What chat.completions.create does: it raises, or answers with
\* choices[0].message.content, which may be None
Raise == [kind |-> "raise", text |-> <<>>]
NoContent == [kind |-> "none", text |-> <<>>]
Text(s) == [kind |-> "text", text |-> s]

NotCalled == [kind |-> "notcalled", text |-> <<>>]

ResponseOutcomes == {Raise, NoContent, Text(<<>>), Text(<<" ">>), Text(<<" ", "o", "k">>)}
TitleOutcomes == {Raise, NoContent, Text(<<>>), Text(<<" ">>), Text(<<"\"", "T", "\"">>)}

Entry(role, content) == [role |-> role, content |-> content]

\* A context that is never cut
RecentMessagesUnbounded(chat_history) == chat_history

\* chat_history[-10:] if len(chat_history) > 10 else chat_history
RecentMessages(chat_history) ==
    IF Len(chat_history) > ContextWindow
    THEN SubSeq(chat_history, Len(chat_history) - ContextWindow + 1, Len(chat_history))
    ELSE chat_history

\* The messages generate_response passes to the provider
BuildMessages(user_message, chat_history) ==
    LET recent == RecentMessages(chat_history)
    IN <<Entry("system", SystemPrompt)>>
       \o [i \in 1..Len(recent) |->
              Entry(IF recent[i].role = "user" THEN "user" ELSE "assistant",
                    recent[i].content)]
       \o <<Entry("user", user_message)>>

\* AIService.generate_response: ok = FALSE is HTTPException 500
generate_response(out) ==
    IF out.kind # "text" \/ out.text = <<>>
    THEN [ok |-> FALSE, text |-> <<>>]
    ELSE [ok |-> TRUE, text |-> Strip(out.text, Whitespace)]

\* A fallback that is not the title create_message_and_respond compares with
FallbackTitleUntitled == <<"U", "n", "t", "i", "t", "l", "e", "d">>

\* return "New Chat": what generate_chat_title gives when it has no title
FallbackTitle == NewChat

\* AIService.generate_chat_title
generate_chat_title(out) ==
    IF out.kind # "text" THEN FallbackTitle
    ELSE LET title == Strip(out.text, Whitespace)
             unquoted == Strip(title, Quotes)
             words == Split(unquoted)
             short == IF Len(words) > TitleMaxWords
                      THEN Join(Take(words, TitleMaxWords))
                      ELSE unquoted
         IN IF title = <<>> THEN FallbackTitle
            ELSE IF Len(short) > TitleMaxLen
                 THEN Take(short, TitleCut) \o <<".", ".", ".">>
                 ELSE short

----------------------------------------------------------------------------
(* Credentials: password hashes and bearer tokens (app.core.security) *)

\* get_password_hash(password): a digest from which verify_password tells
\* whether a given password is the one that was hashed
get_password_hash(password) == [digest_of |-> password]

\* verify_password(plain_password, hashed_password)
verify_password(password, hashed) == hashed.digest_of = password

\* str(uuid): the canonical text of a UUID
UuidStr(id) == [form |-> "canonical", id |-> id]

\* uuid.UUID(text): the UUID a text in canonical or upper-case hexadecimal
\* form denotes; any other text raises ValueError
UuidParse(text) ==
    IF text.form \in {"canonical", "upper"} THEN Some(text.id) ELSE None

\* create_access_token(data): data signed with the service's secret, with an
\* expiry that lies ahead
create_access_token(data) ==
    [kind |-> "jwt", payload |-> data, signed |-> TRUE, expired |-> FALSE]

\* decode_access_token(token): the payload of a well-formed token signed with
\* the service's secret and not expired, None of any other
decode_access_token(token) ==
    IF token.kind = "jwt" /\ token.signed /\ ~token.expired
    THEN Some(token.payload)
    ELSE None

----------------------------------------------------------------------------
(* AuthService and the authentication endpoints *)

EmailOf == [u \in Users |-> IF u = "u1" THEN "a@x" ELSE "b@x"]
Emails == {EmailOf[u] : u \in Users}

Password1 == <<"p", "a", "s", "s", "w", "o", "r", "d">>
Password2 == <<"p", "a", "s", "s", "w", "0", "r", "d">>
ShortPassword == <<"p", "w">>

\* The users there are when the service is used for its chats
RegisteredUsers ==
    {[id |-> u, email |-> EmailOf[u], phone |-> None,
      hashed_password |-> get_password_hash(Password1)] : u \in Users}

NoSignup == [pc |-> "idle",
             user_data |-> [email |-> "-", phone |-> None, password |-> <<>>]]

Digits == {"0", "1", "2", "3", "4", "5", "6", "7", "8", "9"}

\* str.replace(ch, "") for each ch in cs
Remove(s, cs) == SelectSeq(s, LAMBDA ch : ch \notin cs)

\* str.isdigit()
IsDigit(s) == s # <<>> /\ \A i \in 1..Len(s) : s[i] \in Digits

\* UserSignup.validate_phone: whether the validator returns v (it never
\* changes it) and does not raise ValueError
validate_phone(v) ==
    IF v.some /\ Strip(v.val, Whitespace) # <<>>
    THEN LET cleaned == Remove(v.val, {" ", "-"})
         IN IsDigit(Remove(cleaned, {"+"})) /\ Len(cleaned) >= PhoneMinLen
    ELSE TRUE

\* UserSignup: what request validation lets through
UserSignupValid(phone, password) ==
    validate_phone(phone) /\ Len(password) >= PasswordMinLen

----------------------------------------------------------------------------
(* ChatService *)

\* A lookup that does not compare the chat's owner with the caller
get_chat_by_id_any_owner(ch, chat_id, user) ==
    IF chat_id \notin DOMAIN ch THEN 404 ELSE 200

\* ChatService.get_chat_by_id: the status it ends with
get_chat_by_id(ch, chat_id, user) ==
    IF chat_id \notin DOMAIN ch THEN 404
    ELSE IF ch[chat_id].user_id # user THEN 403
    ELSE 200

Failure(op, u, c, status) == [op |-> op, user |-> u, chat |-> c, status |-> status]

NoMsg == [id |-> 0, chat_id |-> 0, role |-> "none", content |-> <<>>, created_at |-> 0]
IdleSess == [pc |-> "idle", user |-> "-", chat |-> 0, content |-> <<>>,
             history |-> <<>>, um |-> NoMsg]

Init ==
    /\ chats = <<>>
    /\ messages = {}
    /\ nextChat = 0
    /\ sends = 0
    /\ now = 0
    /\ coarse = FALSE
    /\ sess = [s \in Sessions |-> IdleSess]
    /\ provider = [request |-> <<>>, response |-> NotCalled, title |-> NotCalled]
    /\ resp = Failure("none", "-", 0, 0)
    /\ users = RegisteredUsers
    /\ pending = [s \in Sessions |-> NoSignup]

\* POST /chats
CreateChat(u, title, cap) ==
    /\ nextChat < cap
    /\ \E t \in ReadClock(-1) :
        LET id == nextChat + 1
            row == [user_id |-> u,
                    title |-> IF Truthy(title) THEN title.val ELSE NewChat,
                    message_count |-> 0,
                    updated_at |-> t]
        IN /\ chats' = chats @@ (id :> row)
           /\ nextChat' = id
           /\ now' = t
           /\ resp' = [op |-> "create_chat", user |-> u, chat |-> id, status |-> 201,
                       request |-> title, title |-> row.title, message_count |-> 0]
    /\ UNCHANGED <<messages, sends, coarse, users, pending, sess, provider>>

\* GET /chats/{chat_id}
GetChat(u, c) ==
    LET status == get_chat_by_id(chats, c, u)
    IN /\ IF status # 200
          THEN resp' = Failure("get_chat", u, c, status)
          ELSE \E q \in AscOrders(MsgsOf(messages, c)) :
                  resp' = [op |-> "get_chat", user |-> u, chat |-> c, status |-> 200,
                           title |-> chats[c].title,
                           message_count |-> chats[c].message_count,
                           messages |-> q]
       /\ UNCHANGED <<chats, messages, nextChat, sends, now, coarse, users, pending,
                      sess, provider>>

\* PATCH /chats/{chat_id}
RenameChat(u, c, title) ==
    LET status == get_chat_by_id(chats, c, u)
    IN IF status # 200
       THEN /\ resp' = Failure("rename_chat", u, c, status)
            /\ UNCHANGED <<chats, messages, nextChat, sends, now, coarse, users,
                           pending, sess, provider>>
       ELSE IF chats[c].title = title
       THEN \* no net change: the unit of work emits no UPDATE
            /\ resp' = [op |-> "rename_chat", user |-> u, chat |-> c, status |-> 200,
                        title |-> title]
            /\ UNCHANGED <<chats, messages, nextChat, sends, now, coarse, users,
                           pending, sess, provider>>
       ELSE \E t \in ReadClock(chats[c].updated_at) :
            /\ chats' = [chats EXCEPT ![c].title = title, ![c].updated_at = t]
            /\ now' = t
            /\ resp' = [op |-> "rename_chat", user |-> u, chat |-> c, status |-> 200,
                        title |-> title]
            /\ UNCHANGED <<messages, nextChat, sends, coarse, users, pending, sess, provider>>

\* A DELETE of messages that is not restricted to the chat
DeleteAllMessages(msgs, c) == {}

\* A delete of the chats row alone, with no cascade
DeleteKeepsMessages(msgs, c) == msgs

\* The rows left when chat c goes: the ORM deletes the messages it loaded and
\* ON DELETE CASCADE the rest
DeleteCascade(msgs, c) == msgs \ MsgsOf(msgs, c)

\* DELETE /chats/{chat_id}.  The DELETE of the chats row waits while another
\* transaction holds an uncommitted INSERT that references it.
DeleteChat(u, c) ==
    LET status == get_chat_by_id(chats, c, u)
    IN IF status # 200
       THEN /\ resp' = Failure("delete_chat", u, c, status)
            /\ UNCHANGED <<chats, messages, nextChat, sends, now, coarse, users,
                           pending, sess, provider>>
       ELSE /\ \A s \in Sessions : ~(sess[s].pc = "flushed" /\ sess[s].chat = c)
            /\ chats' = [d \in DOMAIN chats \ {c} |-> chats[d]]
            /\ messages' = DeleteCascade(messages, c)
            /\ resp' = [op |-> "delete_chat", user |-> u, chat |-> c, status |-> 200]
            /\ UNCHANGED <<nextChat, sends, now, coarse, users, pending, sess, provider>>

----------------------------------------------------------------------------
(* MessageService and the message endpoints *)

\* POST /chats/{chat_id}/messages, first statement: ChatService.get_chat_by_id
SendLookup(s, u, c, content, cap) ==
    LET status == get_chat_by_id(chats, c, u)
    IN /\ sess[s].pc = "idle"
       /\ IF status # 200
          THEN /\ resp' = Failure("send_message", u, c, status)
               /\ UNCHANGED sess
          ELSE /\ sends + Cardinality({x \in Sessions : sess[x].pc = "found"}) < cap
               /\ sess' = [sess EXCEPT ![s] =
                              [IdleSess EXCEPT !.pc = "found", !.user = u,
                                               !.chat = c, !.content = content]]
               /\ UNCHANGED resp
       /\ UNCHANGED <<chats, messages, nextChat, sends, now, coarse, users, pending, provider>>

\* The latest stamp among the rows a query returned
LastStamp(rows) == IF rows = <<>> THEN -1
                   ELSE SetMax({rows[i].created_at : i \in 1..Len(rows)})

\* create_message_and_respond up to db.flush(): the history query, then the
\* INSERT of the user message, which fails on the foreign key when the chat
\* was deleted since the lookup
SendLoad(s) ==
    LET c == sess[s].chat
    IN /\ sess[s].pc = "found"
       /\ IF c \notin DOMAIN chats
          THEN /\ resp' = Failure("send_message", sess[s].user, c, 500)
               /\ sess' = [sess EXCEPT ![s] = IdleSess]
               /\ UNCHANGED <<sends, now>>
          ELSE \E existing_messages \in AscOrders(MsgsOf(messages, c)) :
               \E t \in ReadClock(LastStamp(existing_messages)) :
                  /\ sess' = [sess EXCEPT ![s].pc = "flushed",
                                          ![s].history = existing_messages,
                                          ![s].um = [id |-> 2 * sends + 1, chat_id |-> c,
                                                     role |-> "user",
                                                     content |-> sess[s].content,
                                                     created_at |-> t]]
                  /\ sends' = sends + 1
                  /\ now' = t
                  /\ UNCHANGED resp
       /\ UNCHANGED <<chats, messages, nextChat, coarse, users, pending, provider>>

\* A test that takes every send for the first of its chat
is_first_message_always(existing_messages) == TRUE

\* is_first_message = len(existing_messages) == 0
is_first_message(existing_messages) == Len(existing_messages) = 0

\* A count that forgets the assistant message
NewMessageCountOffByOne(existing_messages) == Len(existing_messages) + 1

\* chat.message_count = len(existing_messages) + 2
NewMessageCount(existing_messages) == Len(existing_messages) + 2

\* create_message_and_respond from generate_response to the return, and the
\* session's close by get_db
SendFinish(s, responses, titles) ==
    LET c == sess[s].chat
        user_message == sess[s].um
        existing_messages == sess[s].history
        first == is_first_message(existing_messages)
    IN /\ sess[s].pc = "flushed"
       /\ sess' = [sess EXCEPT ![s] = IdleSess]
       /\ \E out \in responses :
            LET request == BuildMessages(sess[s].content, existing_messages)
                ai == generate_response(out)
            IN IF ~ai.ok
               THEN /\ messages' = SessionClose(messages, {user_message})
                    /\ provider' = [request |-> request, response |-> out,
                                    title |-> NotCalled]
                    /\ resp' = Failure("send_message", sess[s].user, c, 500)
                    /\ UNCHANGED <<chats, now>>
               ELSE \E t \in ReadClock(user_message.created_at) :
                    \E tout \in (IF first THEN titles ELSE {NotCalled}) :
                       LET assistant_message ==
                               [id |-> user_message.id + 1, chat_id |-> c,
                                role |-> "assistant", content |-> ai.text,
                                created_at |-> t]
                           new_title == generate_chat_title(tout)
                           title_generated == /\ first
                                              /\ new_title # <<>>
                                              /\ new_title # NewChat
                           row == [chats[c] EXCEPT
                                     !.message_count = NewMessageCount(existing_messages),
                                     !.title = IF title_generated THEN new_title ELSE @,
                                     !.updated_at = t]
                       IN /\ messages' = SessionCommit(messages,
                                                       {user_message, assistant_message})
                          /\ chats' = [chats EXCEPT ![c] = row]
                          /\ now' = t
                          /\ provider' = [request |-> request, response |-> out,
                                          title |-> tout]
                          /\ resp' = [op |-> "send_message", user |-> sess[s].user,
                                      chat |-> c, status |-> 201,
                                      user_message |-> user_message,
                                      assistant_message |-> assistant_message,
                                      title |-> row.title,
                                      message_count |-> row.message_count,
                                      title_generated |-> title_generated]
       /\ UNCHANGED <<nextChat, sends, coarse, users, pending>>

\* MessageService.get_chat_messages: the results the query may give
get_chat_messages(msgs, c, page, page_size) ==
    {[messages |-> Slice(q, (page - 1) * page_size, page_size), total |-> Len(q)] :
        q \in AscOrders(MsgsOf(msgs, c))}

\* ChatService.get_user_chats: the results the query may give
get_user_chats(ch, u, page, page_size) ==
    {[chats |-> Slice(q, (page - 1) * page_size, page_size), total |-> Len(q)] :
        q \in DescOrders(ch, {c \in DOMAIN ch : ch[c].user_id = u})}

\* math.ceil(total / page_size) if total > 0 else 0
TotalPages(total, page_size) == IF total > 0 THEN Ceil(total, page_size) ELSE 0

\* GET /chats/{chat_id}/messages
ListMessages(u, c, page, page_size) ==
    LET status == get_chat_by_id(chats, c, u)
    IN /\ IF status # 200
          THEN resp' = Failure("list_messages", u, c, status)
          ELSE \E r \in get_chat_messages(messages, c, page, page_size) :
                  resp' = [op |-> "list_messages", user |-> u, chat |-> c,
                           status |-> 200, messages |-> r.messages, total |-> r.total,
                           page |-> page, page_size |-> page_size,
                           total_pages |-> TotalPages(r.total, page_size)]
       /\ UNCHANGED <<chats, messages, nextChat, sends, now, coarse, users, pending,
                      sess, provider>>

\* GET /chats
ListChats(u, page, page_size) ==
    /\ \E r \in get_user_chats(chats, u, page, page_size) :
          resp' = [op |-> "list_chats", user |-> u, chat |-> 0, status |-> 200,
                   chats |-> r.chats, total |-> r.total,
                   page |-> page, page_size |-> page_size,
                   total_pages |-> TotalPages(r.total, page_size)]
    /\ UNCHANGED <<chats, messages, nextChat, sends, now, coarse, users, pending, sess,
                   provider>>

----------------------------------------------------------------------------
(* The service under concurrent requests, every clock reading later than the *)
(* one before                                                                *)

Next ==
    \/ \E u \in Users, title \in CreateTitles : CreateChat(u, title, MaxChats)
    \/ \E u \in Users, c \in 1..MaxChats : GetChat(u, c)
    \/ \E u \in Users, c \in 1..MaxChats, title \in RenameTitles : RenameChat(u, c, title)
    \/ \E u \in Users, c \in 1..MaxChats : DeleteChat(u, c)
    \/ \E s \in Sessions, u \in Users, c \in 1..MaxChats, content \in Contents :
          SendLookup(s, u, c, content, MaxSends)
    \/ \E s \in Sessions : SendLoad(s)
    \/ \E s \in Sessions : SendFinish(s, ResponseOutcomes, TitleOutcomes)
    \/ \E u \in Users, c \in 1..MaxChats :
          ListMessages(u, c, DefaultPage, MessagesPageSize)
    \/ \E u \in Users : ListChats(u, DefaultPage, ChatsPageSize)

Spec == Init /\ [][Next]_vars

----------------------------------------------------------------------------
(* One user's conversation: sends one after the other, long enough for the   *)
(* history to outgrow the context window                                     *)

CtxResponses == {Raise, Text(<<" ", "o", "k">>)}
CtxTitles == {Raise}

NextCtx ==
    \/ CreateChat("u1", None, MaxChats)
    \/ \E c \in 1..MaxChats, content \in Contents :
          SendLookup("s1", "u1", c, content, MaxCtxSends)
    \/ SendLoad("s1")
    \/ SendFinish("s1", CtxResponses, CtxTitles)

SpecCtx == Init /\ [][NextCtx]_vars

----------------------------------------------------------------------------
(* First sends, the provider answering the title call with text of many      *)
(* shapes: up to MaxWords words, quotes and blanks around and inside it      *)

Letters == <<"a", "b", "c", "d", "e", "f", "g", "h", "i", "j">>

\* n one-letter words separated by blanks, a double quote after word q
WordsText(n, q) ==
    Join([i \in 1..n |->
            <<Letters[((i - 1) % Len(Letters)) + 1]>>
            \o (IF i = q THEN <<"\"">> ELSE <<>>)])

\* One word that no title column holds
LongWord == [i \in 1..TitleMaxLen + 1 |-> "x"]

TitleDecorations == {<<>>, <<"\"">>, <<"'">>, <<" ">>, <<" ", "'">>}

TitleBodies ==
    {WordsText(n, q) : n \in 0..MaxWords, q \in {0, TitleMaxWords, MaxWords}}
    \cup {LongWord, NewChat}

WideTitleOutcomes ==
    {Raise, NoContent}
    \cup {Text(lead \o body \o trail) :
             lead \in TitleDecorations, body \in TitleBodies,
             trail \in {<<>>, <<"\"">>, <<" ">>}}

TitleResponses == {Text(<<"o", "k">>)}

NextTitle ==
    \/ \E title \in CreateTitles : CreateChat("u1", title, MaxChats)
    \/ \E c \in 1..MaxChats, content \in Contents :
          SendLookup("s1", "u1", c, content, MaxSends)
    \/ SendLoad("s1")
    \/ SendFinish("s1", TitleResponses, WideTitleOutcomes)

SpecTitle == Init /\ [][NextTitle]_vars

----------------------------------------------------------------------------
(* Listings, page by page, of chats and messages whose stamps may be equal:  *)
(* the clock is read by requests that do not wait for one another            *)

InitList ==
    /\ chats = <<>>
    /\ messages = {}
    /\ nextChat = 0
    /\ sends = 0
    /\ now = 0
    /\ coarse = TRUE
    /\ sess = [s \in Sessions |-> IdleSess]
    /\ provider = [request |-> <<>>, response |-> NotCalled, title |-> NotCalled]
    /\ resp = Failure("none", "-", 0, 0)
    /\ users = RegisteredUsers
    /\ pending = [s \in Sessions |-> NoSignup]

\* Query(ge=1, le=100): the smallest and the largest page_size, and one between
ListPageSizes == {MinPageSize, MinPageSize + 2, MaxPageSize}

ListContents == {<<"h", "i">>}
ListResponses == {Text(<<"o", "k">>)}
ListTitles == {Raise}

NextList ==
    \/ \E u \in Users : CreateChat(u, None, MaxListChats)
    \/ \E s \in Sessions, c \in DOMAIN chats, content \in ListContents :
          SendLookup(s, chats[c].user_id, c, content, MaxSends)
    \/ \E s \in Sessions : SendLoad(s)
    \/ \E s \in Sessions : SendFinish(s, ListResponses, ListTitles)
    \/ \E u \in Users, c \in 1..MaxListChats, page \in 1..MaxPage,
          page_size \in ListPageSizes :
          ListMessages(u, c, page, page_size)
    \/ \E u \in Users, page \in 1..MaxPage, page_size \in ListPageSizes :
          ListChats(u, page, page_size)

SpecList == InitList /\ [][NextList]_vars

----------------------------------------------------------------------------
(* Several chats of one user, created, renamed and sent to, and the listing  *)
(* of them; every clock reading later than the one before                    *)

\* ChatCreate.title: absent or null, empty, blank, and a title
RecentTitles == CreateTitles \cup {Some(<<" ">>)}
RecentResponses == {Text(<<"o", "k">>)}
RecentTitleOutcomes == {Raise}

NextRecent ==
    \/ \E u \in Users, title \in RecentTitles : CreateChat(u, title, MaxListChats)
    \/ \E u \in Users, c \in 1..MaxListChats, title \in RenameTitles :
          RenameChat(u, c, title)
    \/ \E c \in DOMAIN chats, content \in ListContents :
          SendLookup("s1", chats[c].user_id, c, content, MaxSends)
    \/ SendLoad("s1")
    \/ SendFinish("s1", RecentResponses, RecentTitleOutcomes)
    \/ \E u \in Users, page_size \in ListPageSizes :
          ListChats(u, DefaultPage, page_size)

SpecRecent == Init /\ [][NextRecent]_vars

----------------------------------------------------------------------------
(* Signup, login and the resolution of a bearer token to its user *)

Bearer == "WWW-Authenticate: Bearer"
NoHeaders == "-"

\* An HTTPException, or the answer of an exception handler, to `request`
AuthFailure(op, request, status, detail, headers) ==
    [op |-> op, request |-> request, status |-> status, detail |-> detail,
     headers |-> headers]

\* UserResponse
Profile(user) == [id |-> user.id, email |-> user.email, phone |-> user.phone]

\* A token whose subject is the user's email
create_user_token_email(user) ==
    create_access_token([sub |-> Some([form |-> "text", id |-> user.email]),
                         email |-> user.email])

\* AuthService.create_user_token
create_user_token(user) ==
    create_access_token([sub |-> Some(UuidStr(user.id)), email |-> user.email])

\* LoginResponse
LoginResponse(op, request, status, user) ==
    [op |-> op, request |-> request, status |-> status, detail |-> "-",
     headers |-> NoHeaders, access_token |-> create_user_token(user),
     token_type |-> "bearer", user |-> Profile(user)]

\* The in-flight signups that have passed their checks
Checked == {s \in Sessions : pending[s].pc = "checked"}

\* A lookup that finds no user
EmailTakenNever(us, email) == FALSE

\* db.query(User).filter(User.email == user_data.email).first()
EmailTaken(us, email) == \E u \in us : u.email = email

\* if user_data.phone: db.query(User).filter(User.phone == user_data.phone).first()
PhoneTaken(us, phone) == Truthy(phone) /\ \E u \in us : u.phone = phone

\* POST /auth/signup up to get_password_hash: request validation and the two
\* lookups of AuthService.create_user
SignupCheck(s, email, phone, password) ==
    LET user_data == [email |-> email, phone |-> phone, password |-> password]
    IN /\ pending[s].pc = "idle"
       /\ IF ~UserSignupValid(phone, password)
          THEN /\ resp' = AuthFailure("signup", user_data, 422, "Validation error",
                                      NoHeaders)
               /\ UNCHANGED pending
          ELSE IF EmailTaken(users, email)
          THEN /\ resp' = AuthFailure("signup", user_data, 400,
                                      "Email already registered", NoHeaders)
               /\ UNCHANGED pending
          ELSE IF PhoneTaken(users, phone)
          THEN /\ resp' = AuthFailure("signup", user_data, 400,
                                      "Phone number already registered", NoHeaders)
               /\ UNCHANGED pending
          ELSE /\ Cardinality(users) + Cardinality(Checked) < Cardinality(Users)
               /\ pending' = [pending EXCEPT ![s] =
                                [pc |-> "checked", user_data |-> user_data]]
               /\ UNCHANGED resp
       /\ UNCHANGED <<chats, messages, nextChat, sends, now, coarse, sess, provider,
                      users>>

\* Columns without unique indexes: no row is refused
UniqueViolationNever(us, row) == FALSE

\* Whether the unique indexes of users (email; phone, where NULLs never
\* collide) refuse the row
UniqueViolation(us, row) ==
    \E u \in us : u.email = row.email \/ (row.phone.some /\ u.phone = row.phone)

\* AuthService.create_user from get_password_hash on, and the response of
\* signup
SignupCommit(s) ==
    LET user_data == pending[s].user_data
    IN /\ pending[s].pc = "checked"
       /\ pending' = [pending EXCEPT ![s] = NoSignup]
       /\ \E id \in Users \ {u.id : u \in users} :
             LET new_user == [id |-> id, email |-> user_data.email,
                              phone |-> user_data.phone,
                              hashed_password |->
                                  get_password_hash(user_data.password)]
             IN IF UniqueViolation(users, new_user)
                THEN /\ resp' = AuthFailure("signup", user_data, 500,
                                            "Database error occurred", NoHeaders)
                     /\ UNCHANGED users
                ELSE /\ users' = users \cup {new_user}
                     /\ resp' = LoginResponse("signup", user_data, 201, new_user)
       /\ UNCHANGED <<chats, messages, nextChat, sends, now, coarse, sess, provider>>

\* A lookup that tells an unknown email from a wrong password
authenticate_user_telling(us, email, password) ==
    LET found == {u \in us : u.email = email}
    IN IF found = {}
       THEN [status |-> 404, detail |-> "User not found", headers |-> NoHeaders]
       ELSE IF ~verify_password(password, (CHOOSE u \in found : TRUE).hashed_password)
       THEN [status |-> 401, detail |-> "Incorrect email or password",
             headers |-> Bearer]
       ELSE [status |-> 200, user |-> CHOOSE u \in found : TRUE]

\* AuthService.authenticate_user
authenticate_user(us, email, password) ==
    LET found == {u \in us : u.email = email}
    IN IF found = {}
          \/ ~verify_password(password, (CHOOSE u \in found : TRUE).hashed_password)
       THEN [status |-> 401, detail |-> "Incorrect email or password",
             headers |-> Bearer]
       ELSE [status |-> 200, user |-> CHOOSE u \in found : TRUE]

\* POST /auth/login
Login(email, password) ==
    /\ LET login_data == [email |-> email, password |-> password]
           r == authenticate_user(users, email, password)
       IN resp' = IF r.status # 200
                  THEN AuthFailure("login", login_data, r.status, r.detail, r.headers)
                  ELSE LoginResponse("login", login_data, 200, r.user)
    /\ UNCHANGED <<chats, messages, nextChat, sends, now, coarse, sess, provider,
                   users, pending>>

\* AuthService.get_user_by_id: the users whose id is the one the text names
get_user_by_id(us, user_id) == {u \in us : UuidStr(u.id) = user_id}

\* get_current_user: the user a bearer token resolves to, or the HTTPException
get_current_user(us, token) ==
    LET payload == decode_access_token(token)
    IN IF ~payload.some
       THEN [status |-> 401, detail |-> "Could not validate credentials",
             headers |-> Bearer]
       ELSE IF ~payload.val.sub.some
       THEN [status |-> 401, detail |-> "Invalid token payload", headers |-> Bearer]
       ELSE LET user_id == UuidParse(payload.val.sub.val)
            IN IF ~user_id.some
               THEN [status |-> 401, detail |-> "Invalid user ID in token",
                     headers |-> Bearer]
               ELSE LET found == get_user_by_id(us, UuidStr(user_id.val))
                    IN IF found = {}
                       THEN [status |-> 404, detail |-> "User not found",
                             headers |-> NoHeaders]
                       ELSE [status |-> 200, user |-> CHOOSE u \in found : TRUE]

\* An endpoint behind Depends(get_current_user) that only reads: GET /auth/me
\* answers the profile, POST /auth/logout an acknowledgement
Protected(op, token) ==
    /\ LET r == get_current_user(users, token)
       IN resp' = IF r.status # 200
                  THEN AuthFailure(op, token, r.status, r.detail, r.headers)
                  ELSE [op |-> op, request |-> token, status |-> 200,
                        detail |-> IF op = "logout" THEN "Successfully logged out"
                                   ELSE "-",
                        headers |-> NoHeaders, user |-> Profile(r.user)]
    /\ UNCHANGED <<chats, messages, nextChat, sends, now, coarse, sess, provider,
                   users, pending>>

\* GET /auth/me
Me(token) == Protected("me", token)

\* POST /auth/logout
Logout(token) == Protected("logout", token)

----------------------------------------------------------------------------
(* The authentication endpoints, from an empty users table *)

Phone1 == <<"0", "8", "0", "1", "2", "3", "4", "5", "6", "7">>
Phone2 == <<"0", "8", "0", "-", "1", "2", "3", " ", "4", "5", "6", "7">>

\* UserSignup.phone as requests give it: absent, empty, blank, two writings of
\* one number, and a number too short
PhoneInputs == {None, Some(<<>>), Some(<<" ">>), Some(Phone1), Some(Phone2),
                Some(<<"0", "8", "0">>)}

SignupPasswords == {Password1, ShortPassword}
LoginPasswords == {Password1, Password2}

\* A bearer credential that is no JWT
Malformed ==
    [kind |-> "garbage", payload |-> [sub |-> None, email |-> "-"],
     signed |-> FALSE, expired |-> FALSE]

\* The credentials a client may present: the tokens issued to the users there
\* are, the same tokens expired and with a signature that is not the
\* service's, and tokens with the service's signature and no subject, a
\* subject that is no UUID, the UUID in upper case, and the UUID of no user
PresentedTokens(us) ==
    {Malformed}
    \cup UNION {{create_user_token(u),
                 [create_user_token(u) EXCEPT !.expired = TRUE],
                 [create_user_token(u) EXCEPT !.signed = FALSE],
                 create_access_token([sub |-> None, email |-> u.email]),
                 create_access_token([sub |-> Some([form |-> "text", id |-> u.id]),
                                      email |-> u.email]),
                 create_access_token([sub |-> Some([form |-> "upper", id |-> u.id]),
                                      email |-> u.email])} : u \in us}
    \cup {create_access_token([sub |-> Some(UuidStr(id)), email |-> EmailOf[id]]) :
             id \in Users}

InitAuth ==
    /\ chats = <<>>
    /\ messages = {}
    /\ nextChat = 0
    /\ sends = 0
    /\ now = 0
    /\ coarse = FALSE
    /\ sess = [s \in Sessions |-> IdleSess]
    /\ provider = [request |-> <<>>, response |-> NotCalled, title |-> NotCalled]
    /\ resp = Failure("none", "-", 0, 0)
    /\ users = {}
    /\ pending = [s \in Sessions |-> NoSignup]

NextAuth ==
    \/ \E s \in Sessions, email \in Emails, phone \in PhoneInputs,
          password \in SignupPasswords :
          SignupCheck(s, email, phone, password)
    \/ \E s \in Sessions : SignupCommit(s)
    \/ \E email \in Emails, password \in LoginPasswords : Login(email, password)
    \/ \E token \in PresentedTokens(users) : Me(token)
    \/ \E token \in PresentedTokens(users) : Logout(token)

SpecAuth == InitAuth /\ [][NextAuth]_vars

----------------------------------------------------------------------------
(* The whole service: users sign up, log in and out, and work on their chats *)

\* The ids of the registered users
Registered == {u.id : u \in users}

ServiceResponses == {Raise, Text(<<"o", "k">>)}
ServiceTitles == {Raise}

\* One user has signed up
InitService ==
    /\ chats = <<>>
    /\ messages = {}
    /\ nextChat = 0
    /\ sends = 0
    /\ now = 0
    /\ coarse = FALSE
    /\ sess = [s \in Sessions |-> IdleSess]
    /\ provider = [request |-> <<>>, response |-> NotCalled, title |-> NotCalled]
    /\ resp = Failure("none", "-", 0, 0)
    /\ users = {u \in RegisteredUsers : u.id = "u1"}
    /\ pending = [s \in Sessions |-> NoSignup]

NextService ==
    \/ \E email \in Emails : SignupCheck("s1", email, None, Password1)
    \/ SignupCommit("s1")
    \/ \E email \in Emails : Login(email, Password1)
    \/ \E u \in users : Logout(create_user_token(u))
    \/ \E u \in Registered : CreateChat(u, None, MaxListChats)
    \/ \E c \in DOMAIN chats : GetChat(chats[c].user_id, c)
    \/ \E c \in DOMAIN chats, title \in RenameTitles :
          RenameChat(chats[c].user_id, c, title)
    \/ \E c \in DOMAIN chats : DeleteChat(chats[c].user_id, c)
    \/ \E c \in DOMAIN chats, content \in ListContents :
          SendLookup("s1", chats[c].user_id, c, content, MaxSends)
    \/ SendLoad("s1")
    \/ SendFinish("s1", ServiceResponses, ServiceTitles)
    \/ \E c \in DOMAIN chats :
          ListMessages(chats[c].user_id, c, DefaultPage, MessagesPageSize)
    \/ \E u \in Registered : ListChats(u, DefaultPage, ChatsPageSize)

SpecService == InitService /\ [][NextService]_vars

----------------------------------------------------------------------------
(* Properties of the message-send workflow *)

\* The step in which the send of session s ends: its provider calls, and its
\* commit or its rollback
Finishes(s) == sess[s].pc = "flushed" /\ sess'[s].pc = "idle"

\* The provider raised, or gave no content, or gave content with nothing but
\* blanks in it
NoUsableText(out) ==
    \/ out.kind \in {"raise", "none"}
    \/ out.kind = "text" /\ Strip(out.text, Whitespace) = <<>>

Range(q) == {q[i] : i \in 1..Len(q)}

\* C1 as stated: when the provider raises or returns no usable text (no
\* content, or content that is empty or blank) to generate_response, the send
\* ends with status 500 and the committed messages and chats (message_count,
\* title) are what they were before it: the flushed user message is not
\* persisted.
C1_FailedSendCommitsNothing ==
    [][\A s \in Sessions :
          (Finishes(s) /\ NoUsableText(provider'.response))
          => /\ resp' = Failure("send_message", sess[s].user, sess[s].chat, 500)
             /\ messages' = messages
             /\ chats' = chats]_vars

\* C2: a successful send that loaded N messages of the chat sets message_count
\* to N + 2 and commits exactly two new messages of that chat, a user message
\* with the request's content and then an assistant message, both stamped no
\* earlier than the N messages it loaded.
C2_SendAddsUserThenAssistant ==
    [][\A s \in Sessions :
          (Finishes(s) /\ resp'.status = 201)
          => LET c == sess[s].chat
                 prior == sess[s].history
                 new == messages' \ messages
             IN /\ chats'[c].message_count = Len(prior) + 2
                /\ messages \subseteq messages'
                /\ Cardinality(new) = 2
                /\ \E um \in new, am \in new :
                      /\ um.chat_id = c /\ am.chat_id = c
                      /\ um.role = "user" /\ um.content = sess[s].content
                      /\ am.role = "assistant"
                      /\ um.created_at < am.created_at
                      /\ \A i \in 1..Len(prior) :
                            /\ prior[i].created_at <= um.created_at
                            /\ prior[i].created_at <= am.created_at]_vars

\* A send succeeded on a chat that had two messages
C2_Witness ==
    /\ resp.op = "send_message" /\ resp.status = 201
    /\ resp.message_count = 4
    /\ Cardinality(MsgsOf(messages, resp.chat)) = 4

\* C3 as stated: right after any successful send commits, in any interleaving,
\* message_count is the number of persisted messages of the chat.
C3_CountAlwaysMatches ==
    (resp.op = "send_message" /\ resp.status = 201 /\ resp.chat \in DOMAIN chats)
    => chats[resp.chat].message_count = Cardinality(MsgsOf(messages, resp.chat))

\* C3, amended: right after a successful send commits, message_count is the
\* number of persisted messages of the chat, provided no other send on that
\* chat committed between this send's load of the history and its commit.
C3_CountMatchesWithoutOverlap ==
    [][\A s \in Sessions :
          (/\ Finishes(s) /\ resp'.status = 201
           /\ MsgsOf(messages, sess[s].chat) = Range(sess[s].history))
          => chats'[sess[s].chat].message_count
                = Cardinality(MsgsOf(messages', sess[s].chat))]_vars

\* A second send succeeded after the first had committed
C3_Witness ==
    /\ resp.op = "send_message" /\ resp.status = 201
    /\ resp.chat \in DOMAIN chats
    /\ chats[resp.chat].message_count = 4
    /\ \A s \in Sessions : sess[s].pc = "idle"

\* The number of messages in msgs that were created before m
Older(msgs, m) == Cardinality({x \in msgs : x.created_at < m.created_at})

\* C4: when a send on a chat with N persisted messages calls the provider, the
\* messages it passes are the system prompt, then the min(N, 10) most recently
\* created messages of the chat, oldest first, each with its role and content,
\* then the new user content; never more than 10 prior messages; and all N
\* messages are still persisted afterwards.
C4_ContextIsWindow ==
    [][\A s \in Sessions :
          Finishes(s)
          => LET prior == MsgsOf(messages, sess[s].chat)
                 N == Cardinality(prior)
                 k == IF N <= ContextWindow THEN N ELSE ContextWindow
                 request == provider'.request
             IN /\ Len(request) = k + 2
                /\ request[1] = Entry("system", SystemPrompt)
                /\ \A i \in 1..k :
                      \E m \in prior :
                         /\ Older(prior, m) = N - k + i - 1
                         /\ request[i + 1] = Entry(m.role, m.content)
                /\ request[k + 2] = Entry("user", sess[s].content)
                /\ prior \subseteq messages']_vars

\* A send succeeded on a chat that had 12 messages
C4_Witness ==
    /\ resp.op = "send_message" /\ resp.status = 201
    /\ resp.message_count = ContextWindow + 4
    /\ Len(provider.request) = ContextWindow + 2

----------------------------------------------------------------------------
(* Properties of ownership and deletion *)

\* The operations on one chat
ChatOps == {"get_chat", "rename_chat", "delete_chat", "send_message", "list_messages"}

\* C5: get_chat, rename_chat, delete_chat, send_message and list_messages on
\* an existing chat by a user who is not its owner are answered 403 Forbidden,
\* and the chats (title, message_count) and the messages stay what they were.
C5_NonOwnerForbidden ==
    [][(/\ resp' # resp
        /\ resp'.op \in ChatOps
        /\ resp'.chat \in DOMAIN chats
        /\ chats[resp'.chat].user_id # resp'.user)
       => /\ resp'.status = 403
          /\ chats' = chats
          /\ messages' = messages
          /\ sess' = sess]_vars

\* A send_message of a user who is not the owner was refused on a chat that
\* has messages
C5_Witness ==
    /\ resp.op = "send_message" /\ resp.status = 403
    /\ resp.chat \in DOMAIN chats
    /\ chats[resp.chat].user_id # resp.user
    /\ MsgsOf(messages, resp.chat) # {}

\* Chat ids that were handed out and whose chat is no longer there
Deleted(ch, next) == {c \in 1..next : c \notin DOMAIN ch}

\* C6: once a chat is deleted none of its messages is persisted, and every
\* get_chat, rename_chat, delete_chat, send_message and list_messages that
\* arrives afterwards for its id, from any user, is answered 404 Not Found.  (A
\* send that had found the chat before the delete is not such a request: it is
\* the step that changes sess from "found".)
C6_DeletedChatIsGone ==
    [][/\ \A c \in Deleted(chats', nextChat') : MsgsOf(messages', c) = {}
       /\ \A c \in Deleted(chats, nextChat) :
             (resp'.op \in ChatOps /\ resp'.chat = c /\ sess' = sess)
             => /\ resp'.status = 404
                /\ chats' = chats
                /\ messages' = messages]_vars

\* A chat that had messages was deleted, and a later request for it got 404
C6_Witness ==
    /\ resp.op = "list_messages" /\ resp.status = 404
    /\ resp.chat \in Deleted(chats, nextChat)
    /\ provider.response.kind = "text"
    /\ messages = {}

----------------------------------------------------------------------------
(* Properties of title generation *)

\* The title call raised, or gave no content, or gave blank content
TitleCallFailed(out) ==
    \/ out.kind \in {"raise", "none"}
    \/ out.kind = "text" /\ Strip(out.text, Whitespace) = <<>>

\* C8: when, in a send that loaded an empty history, the response call gives
\* usable text and the title call raises or gives no or blank text, the send
\* is answered 201, its user and assistant messages are committed,
\* message_count is 2, the title is what it was and title_generated is false.
C8_TitleFailureKeepsSend ==
    [][\A s \in Sessions :
          (/\ Finishes(s)
           /\ Len(sess[s].history) = 0
           /\ ~NoUsableText(provider'.response)
           /\ TitleCallFailed(provider'.title))
          => LET c == sess[s].chat
             IN /\ resp'.op = "send_message" /\ resp'.status = 201
                /\ resp'.user_message.role = "user"
                /\ resp'.assistant_message.role = "assistant"
                /\ resp'.user_message # resp'.assistant_message
                /\ messages' = messages \cup {resp'.user_message, resp'.assistant_message}
                /\ {resp'.user_message, resp'.assistant_message} \cap messages = {}
                /\ chats'[c].message_count = 2
                /\ chats'[c].title = chats[c].title
                /\ resp'.title_generated = FALSE]_vars

\* The first send on a renamed chat succeeded although the title call raised
C8_Witness ==
    /\ resp.op = "send_message" /\ resp.status = 201
    /\ provider.title.kind = "raise"
    /\ resp.title = <<"R">>
    /\ resp.message_count = 2
    /\ resp.title_generated = FALSE

\* The number of words of s: the positions where a blank or the end of s
\* follows a character that is not a blank
WordCount(s) ==
    Cardinality({i \in 1..Len(s) :
                    /\ s[i] \notin Whitespace
                    /\ (i = Len(s) \/ s[i + 1] \in Whitespace)})

\* C7 as stated: after a successful send that loaded an empty history on a
\* chat titled "New Chat", either the title is still "New Chat" and
\* title_generated is false, or title_generated is true and the title has at
\* most 6 words and at most 200 characters and neither begins nor ends with a
\* single or double quote.
C7_FirstSendTitle ==
    [][\A s \in Sessions :
          (/\ Finishes(s) /\ resp'.status = 201
           /\ Len(sess[s].history) = 0
           /\ chats[sess[s].chat].title = NewChat)
          => LET title == chats'[sess[s].chat].title
             IN \/ /\ title = NewChat
                   /\ resp'.title_generated = FALSE
                \/ /\ resp'.title_generated = TRUE
                   /\ WordCount(title) <= TitleMaxWords
                   /\ Len(title) <= TitleMaxLen
                   /\ title # <<>> => /\ title[1] \notin Quotes
                                     /\ title[Len(title)] \notin Quotes]_vars

----------------------------------------------------------------------------
(* Properties of the listings *)

ChatsOf(ch, u) == {c \in DOMAIN ch : ch[c].user_id = u}

\* C9: a listing of a user's chats, or of a chat's messages, with page >= 1
\* and page_size in 1..100 reports as total the number of chats the user owns
\* (of messages the chat has), and as total_pages 0 when that is 0 and
\* otherwise the least number of pages of page_size rows that hold them all.
C9_TotalPagesIsCeiling ==
    (resp.op \in {"list_chats", "list_messages"} /\ resp.status = 200)
    => LET total == IF resp.op = "list_chats"
                    THEN Cardinality(ChatsOf(chats, resp.user))
                    ELSE Cardinality(MsgsOf(messages, resp.chat))
       IN /\ resp.page >= 1
          /\ resp.page_size \in MinPageSize..MaxPageSize
          /\ resp.total = total
          /\ IF total = 0 THEN resp.total_pages = 0
             ELSE /\ resp.total_pages * resp.page_size >= total
                  /\ (resp.total_pages - 1) * resp.page_size < total

\* Four messages were listed three to a page: two pages
C9_Witness ==
    /\ resp.op = "list_messages" /\ resp.status = 200
    /\ resp.total = 4
    /\ resp.page_size = MinPageSize + 2
    /\ resp.total_pages = 2

\* The pages f[1], ..., f[n] one after the other
RECURSIVE Concat(_, _)
Concat(f, n) == IF n = 0 THEN <<>> ELSE Concat(f, n - 1) \o f[n]

\* The ways n page requests may be answered, Answers(p) being the answers the
\* store may give to the request for page p
PageRuns(Answers(_), n) ==
    {f \in [1..n -> UNION {Answers(p) : p \in 1..n}] :
        \A p \in 1..n : f[p] \in Answers(p)}

\* C10 as stated: in every state of the store and for every page_size, however
\* the requests for pages 1..total_pages are answered, the pages one after the
\* other hold every message of the chat exactly once in ascending created_at,
\* and every chat of the user exactly once in descending updated_at.
C10_PagesReproduceTheList ==
    /\ \A c \in DOMAIN chats, page_size \in ListPageSizes :
          LET rows == MsgsOf(messages, c)
              Answers(p) ==
                  {r.messages : r \in get_chat_messages(messages, c, p, page_size)}
              total_pages == TotalPages(Cardinality(rows), page_size)
          IN \A f \in PageRuns(Answers, total_pages) :
                LET all == Concat(f, total_pages)
                IN /\ Len(all) = Cardinality(rows)
                   /\ Range(all) = rows
                   /\ \A i, j \in 1..Len(all) :
                         i < j => all[i].created_at <= all[j].created_at
    /\ \A u \in Users, page_size \in ListPageSizes :
          LET rows == ChatsOf(chats, u)
              Answers(p) ==
                  {r.chats : r \in get_user_chats(chats, u, p, page_size)}
              total_pages == TotalPages(Cardinality(rows), page_size)
          IN \A f \in PageRuns(Answers, total_pages) :
                LET all == Concat(f, total_pages)
                IN /\ Len(all) = Cardinality(rows)
                   /\ Range(all) = rows
                   /\ \A i, j \in 1..Len(all) :
                         i < j => chats[all[i]].updated_at >= chats[all[j]].updated_at

----------------------------------------------------------------------------
(* Properties of signup, login and token resolution *)

\* The step answers a signup that stopped at validation or at a lookup
SignupRefused ==
    resp' # resp /\ resp'.op = "signup" /\ pending' = pending

\* The step in which the signup of session s commits or fails to commit
SignupEnds(s) == pending[s].pc = "checked" /\ pending'[s].pc = "idle"

PhoneConflict(us, phone) == phone.some /\ \E u \in us : u.phone = phone

\* C12 as stated: a valid signup with an email no user has and a phone equal to
\* an existing user's phone, the empty string included, is answered 400 "Phone
\* number already registered" and creates no user: it is refused by the phone
\* lookup, none goes on to the INSERT, and no commit answers it otherwise.
C12_PhoneConflictIsConflict ==
    [][/\ (/\ SignupRefused
           /\ UserSignupValid(resp'.request.phone, resp'.request.password)
           /\ ~\E u \in users : u.email = resp'.request.email
           /\ PhoneConflict(users, resp'.request.phone))
          => /\ resp'.status = 400
             /\ resp'.detail = "Phone number already registered"
             /\ users' = users
       /\ \A s \in Sessions :
             (pending[s].pc = "idle" /\ pending'[s].pc = "checked")
             => ~(/\ ~\E u \in users : u.email = pending'[s].user_data.email
                  /\ PhoneConflict(users, pending'[s].user_data.phone))
       /\ \A s \in Sessions :
             (/\ SignupEnds(s)
              /\ ~\E u \in users : u.email = pending[s].user_data.email
              /\ PhoneConflict(users, pending[s].user_data.phone))
             => /\ resp'.status = 400
                /\ resp'.detail = "Phone number already registered"
                /\ users' = users]_vars

\* What a client sees of a response: everything but the echo of its request
Seen(r) == [f \in DOMAIN r \ {"request"} |-> r[f]]

\* The step answers a login
LoginAnswered == resp' # resp /\ resp'.op = "login"

\* C13: a login whose email no user has and a login whose password does not
\* verify against the user's hash both fail, with one and the same response
\* (401, "Incorrect email or password", WWW-Authenticate: Bearer), so that the
\* two cannot be told apart, and a failed login changes nothing that is stored.
C13_LoginFailuresAlike ==
    [][LoginAnswered
       => LET found == {u \in users : u.email = resp'.request.email}
              fails == \/ found = {}
                       \/ \E u \in found :
                             ~verify_password(resp'.request.password,
                                              u.hashed_password)
          IN /\ fails <=> resp'.status # 200
             /\ fails
                => /\ Seen(resp') = [op |-> "login", status |-> 401,
                                     detail |-> "Incorrect email or password",
                                     headers |-> Bearer]
                   /\ users' = users /\ pending' = pending
                   /\ chats' = chats /\ messages' = messages /\ sess' = sess]_vars

\* A login with a registered email and a wrong password was refused while
\* another email was still unregistered
C13_Witness ==
    /\ resp.op = "login" /\ resp.status = 401
    /\ \E u \in users :
          /\ u.email = resp.request.email
          /\ ~verify_password(resp.request.password, u.hashed_password)
    /\ \E email \in Emails : ~\E u \in users : u.email = email

\* C14: the token a successful signup or login returns has the id of the user
\* it was issued to, as text, for its subject, and get_current_user resolves
\* that token, unexpired, to exactly that user: the registered user whose
\* profile the response carries and whose email the request named.
C14_TokenResolvesToItsUser ==
    (resp.op \in {"signup", "login"} /\ resp.status \in {200, 201})
    => LET token == resp.access_token
           holders == {u \in users : u.email = resp.request.email}
       IN /\ ~token.expired
          /\ Cardinality(holders) = 1
          /\ \A u \in holders :
                /\ Profile(u) = resp.user
                /\ token.payload.sub = Some(UuidStr(u.id))
                /\ get_current_user(users, token) = [status |-> 200, user |-> u]
                /\ \A v \in users \ {u} :
                      get_current_user(users, token) # [status |-> 200, user |-> v]

\* The second of two registered users logged in
C14_Witness ==
    /\ resp.op = "login" /\ resp.status = 200
    /\ Cardinality(users) = 2
    /\ \E u \in users : u.id # resp.user.id

\* The token is a JWT with the service's signature that has not expired
Verifies(token) == token.kind = "jwt" /\ token.signed /\ ~token.expired

\* The subject is a UUID as uuid.UUID reads it
WellFormed(sub) == sub.form \in {"canonical", "upper"}

\* C15 as stated: a request behind get_current_user is answered 401 when the
\* token cannot be decoded or verified, when its payload has no subject, when
\* the subject is no well-formed UUID, and when the subject is the well-formed
\* id of no user; in every other case it is answered for the user whose id
\* the subject is.
C15_ResolveFailsUnauthorized ==
    [][(resp' # resp /\ resp'.op \in {"me", "logout"})
       => LET token == resp'.request
              sub == token.payload.sub
              matching == IF Verifies(token) /\ sub.some /\ WellFormed(sub.val)
                          THEN {u \in users : u.id = sub.val.id}
                          ELSE {}
          IN IF matching = {}
             THEN resp'.status = 401
             ELSE /\ resp'.status = 200
                  /\ \E u \in matching : resp'.user = Profile(u)]_vars

----------------------------------------------------------------------------
(* Properties of the listing of chats *)

\* The last answer is that of a create_chat, rename_chat or send_message that
\* succeeded; every later change of a chat would have replaced it
JustUpdated ==
    /\ resp.op \in {"create_chat", "rename_chat", "send_message"}
    /\ resp.status \in {200, 201}

\* C16 as stated: list_chats gives a user that user's chats only, the most
\* recently updated first, and right after a create_chat, a rename_chat or a
\* send_message has succeeded on a chat, before anything else updates a chat of
\* that user, the chat is the first entry of page 1 of its owner's list.
C16_UpdatedChatListsFirst ==
    /\ \A u \in Users, page_size \in ListPageSizes :
          \A r \in get_user_chats(chats, u, DefaultPage, page_size) :
             /\ \A i \in 1..Len(r.chats) : chats[r.chats[i]].user_id = u
             /\ \A i, j \in 1..Len(r.chats) :
                   i < j => chats[r.chats[i]].updated_at >= chats[r.chats[j]].updated_at
    /\ JustUpdated
       => \A page_size \in ListPageSizes :
             \A r \in get_user_chats(chats, resp.user, DefaultPage, page_size) :
                Len(r.chats) >= 1 /\ r.chats[1] = resp.chat

----------------------------------------------------------------------------
(* Properties of the transaction of a send *)

\* Every user message among msgs has its assistant message among them, and
\* every assistant message the user message it answers
Paired(msgs) ==
    \A m \in msgs :
       \E other \in msgs :
          /\ other.chat_id = m.chat_id
          /\ IF m.role = "user"
             THEN other.role = "assistant" /\ other.id = m.id + 1
             ELSE other.role = "user" /\ other.id = m.id - 1

\* C17: the user message, the assistant message, message_count and the title
\* of a send become visible in one step or never.  What is committed, what
\* get_chat and list_messages answer and the history a concurrent send loads
\* never hold the user message of a send without its assistant message; the
\* step that commits a send adds exactly its two messages and sets the count
\* and the title it answers with; nothing else adds a message or changes a
\* count; and a send that ends without committing leaves messages and chats as
\* they were.
C17_SendVisibleAtOnce ==
    [][/\ Paired(messages')
       /\ (resp'.op \in {"get_chat", "list_messages"} /\ resp'.status = 200)
          => Paired(Range(resp'.messages))
       /\ \A s \in Sessions : Paired(Range(sess'[s].history))
       /\ \A s \in Sessions :
             Finishes(s)
             => IF resp'.status = 201
                THEN /\ messages' \ messages
                           = {resp'.user_message, resp'.assistant_message}
                     /\ resp'.user_message = sess[s].um
                     /\ messages \subseteq messages'
                     /\ chats'[sess[s].chat].message_count = resp'.message_count
                     /\ chats'[sess[s].chat].title = resp'.title
                ELSE messages' = messages /\ chats' = chats
       /\ (messages' \ messages # {})
          => \E s \in Sessions : Finishes(s) /\ resp'.status = 201
       /\ \A c \in DOMAIN chats \cap DOMAIN chats' :
             chats'[c].message_count # chats[c].message_count
             => messages' \ messages # {}]_vars

\* get_chat or list_messages answered with the two messages of a committed
\* send while another send on that chat had flushed its user message and not
\* yet committed
C17_Witness ==
    /\ resp.op \in {"get_chat", "list_messages"} /\ resp.status = 200
    /\ Len(resp.messages) = 2
    /\ \E s \in Sessions : sess[s].pc = "flushed" /\ sess[s].chat = resp.chat

\* C18: when a send commits on a chat on which another send, which loaded the
\* same N messages, has committed since this one loaded them, both have
\* succeeded: four messages beyond the N are persisted, the N are still
\* there, and message_count is N + 2.  (That the four need not alternate user,
\* assistant, user, assistant is shown by the state C18_Witness describes.)
C18_OverlappingSendsUndercount ==
    [][\A s \in Sessions :
          LET c == sess[s].chat
              N == Len(sess[s].history)
          IN (/\ Finishes(s) /\ resp'.status = 201
              /\ Cardinality(MsgsOf(messages, c)) = N + 2)
             => /\ Range(sess[s].history) \subseteq MsgsOf(messages', c)
                /\ Cardinality(MsgsOf(messages', c)) = N + 4
                /\ chats'[c].message_count = N + 2
                /\ Cardinality({m \in MsgsOf(messages', c) \ Range(sess[s].history) :
                                   m.role = "user"}) = 2]_vars

\* Two sends on a new chat have both succeeded: four messages, message_count
\* 2, and both user messages were created before both assistant messages
C18_Witness ==
    /\ resp.op = "send_message" /\ resp.status = 201
    /\ resp.chat \in DOMAIN chats
    /\ chats[resp.chat].message_count = 2
    /\ Cardinality(MsgsOf(messages, resp.chat)) = 4
    /\ \A um \in MsgsOf(messages, resp.chat), am \in MsgsOf(messages, resp.chat) :
          (um.role = "user" /\ am.role = "assistant")
          => um.created_at < am.created_at

----------------------------------------------------------------------------
(* Properties of create_chat and of the persisted messages *)

\* The title is absent or null, empty, or nothing but blanks
Blank(title) == ~title.some \/ Strip(title.val, Whitespace) = <<>>

\* C19 as stated: create_chat adds exactly one chat, owned by the requester,
\* with message_count 0 and no messages, and changes no other chat; its title
\* is "New Chat" when the requested title is absent, null, empty or blank, and
\* the requested title otherwise.
C19_CreateChatDefaultsTitle ==
    [][(resp' # resp /\ resp'.op = "create_chat")
       => LET id == resp'.chat
          IN /\ DOMAIN chats' = DOMAIN chats \cup {id}
             /\ id \notin DOMAIN chats
             /\ \A c \in DOMAIN chats : chats'[c] = chats[c]
             /\ chats'[id].user_id = resp'.user
             /\ chats'[id].message_count = 0
             /\ MsgsOf(messages', id) = {}
             /\ messages' = messages
             /\ chats'[id].title = IF Blank(resp'.request) THEN NewChat
                                   ELSE resp'.request.val]_vars

\* C20: a persisted message never changes.  In every step of every operation
\* (signup, login, logout, create_chat, get_chat, rename_chat, delete_chat,
\* send_message, list_messages, list_chats) each persisted message is still
\* persisted afterwards with the same role, content, chat and creation time,
\* and no other row takes its id, unless the step is the successful
\* delete_chat of the message's own chat.
C20_MessagesImmutable ==
    [][\A m \in messages :
          /\ \A x \in messages' : x.id = m.id => x = m
          /\ m \notin messages'
             => /\ resp'.op = "delete_chat" /\ resp'.status = 200
                /\ resp'.chat = m.chat_id
                /\ m.chat_id \in DOMAIN chats
                /\ m.chat_id \notin DOMAIN chats']_vars

\* After a second user signed up and both sends were made, a chat was deleted
\* and the two messages of another chat are still persisted
C20_Witness ==
    /\ resp.op = "delete_chat" /\ resp.status = 200
    /\ sends = MaxSends
    /\ Cardinality(messages) = 2
    /\ \A m \in messages : m.chat_id # resp.chat
    /\ Cardinality(users) = 2

----------------------------------------------------------------------------
(* Invariants of the committed store *)

\* C21: in every committed state, also when delete_chat interleaves with a
\* send_message in flight on the same chat, every persisted message belongs to
\* a chat that exists and every chat to a user that exists, each to exactly
\* one: there are no orphaned messages and no orphaned chats.
C21_NoOrphans ==
    /\ \A m \in messages :
          /\ m.chat_id \in DOMAIN chats
          /\ Cardinality({c \in DOMAIN chats : c = m.chat_id}) = 1
    /\ \A c \in DOMAIN chats :
          Cardinality({u \in users : u.id = chats[c].user_id}) = 1

\* A send that had found its chat failed because the chat was deleted before
\* its INSERT, while the two messages of another chat are persisted
C21_Witness ==
    /\ resp.op = "send_message" /\ resp.status = 500
    /\ resp.chat \in Deleted(chats, nextChat)
    /\ Cardinality(messages) = 2
    /\ \A s \in Sessions : sess[s].pc = "idle"

\* The persisted messages of chat c that have the role
WithRole(msgs, c, role) == {m \in MsgsOf(msgs, c) : m.role = role}

\* C22: in every committed state, whatever the requests and their
\* interleaving, each chat has an even number of persisted messages, as many
\* of role user as of role assistant.
C22_MessagesComeInPairs ==
    \A c \in 1..nextChat :
       /\ Cardinality(MsgsOf(messages, c)) % 2 = 0
       /\ Cardinality(WithRole(messages, c, "user"))
             = Cardinality(WithRole(messages, c, "assistant"))
       /\ MsgsOf(messages, c)
             = WithRole(messages, c, "user") \cup WithRole(messages, c, "assistant")

\* The second send on a chat has committed after the first one failed: the
\* user message the first had flushed is not among the two persisted
C22_Witness ==
    /\ resp.op = "send_message" /\ resp.status = 201
    /\ resp.user_message.id = 3
    /\ Cardinality(MsgsOf(messages, resp.chat)) = 2
    /\ \A s \in Sessions : sess[s].pc = "idle"

\* C23: a send changes the title of its chat only if the history it loaded was
\* empty.  A send that loaded at least one message makes no title call, leaves
\* the title as it is, a title set by rename_chat included, and, when it
\* succeeds, answers title_generated false with the title unchanged.
C23_OnlyFirstSendTitles ==
    [][\A s \in Sessions :
          LET c == sess[s].chat
          IN /\ (Finishes(s) /\ Len(sess[s].history) >= 1)
                => /\ provider'.title = NotCalled
                   /\ chats'[c].title = chats[c].title
                   /\ resp'.status = 201
                      => /\ ~resp'.title_generated
                         /\ resp'.title = chats[c].title
             /\ (Finishes(s) /\ chats'[c].title # chats[c].title)
                => /\ sess[s].history = <<>>
                   /\ resp'.status = 201 /\ resp'.title_generated]_vars

\* A send on a chat that had two messages and a title set by rename_chat
\* succeeded, and the title is still the one rename_chat set
C23_Witness ==
    /\ resp.op = "send_message" /\ resp.status = 201
    /\ resp.message_count = 4
    /\ ~resp.title_generated
    /\ resp.title \in RenameTitles
    /\ provider.title = NotCalled

\* No two users have the same email, or the same phone unless it is NULL
UniqueUsers(us) ==
    \A u \in us, v \in us :
       u # v => /\ u.id # v.id
                /\ u.email # v.email
                /\ (u.phone.some /\ v.phone.some) => u.phone # v.phone

\* C24: in every reachable state, also when concurrent signups pass the
\* existence checks together, no two users share an email and no two share a
\* phone that is not NULL; a signup that reaches its commit when a user with
\* its email has been created meanwhile creates no user, so that of several
\* concurrent signups with one email at most one creates a user.
C24_UsersStayUnique ==
    [][/\ UniqueUsers(users')
       /\ \A s \in Sessions :
             (/\ SignupEnds(s)
              /\ \E u \in users : u.email = pending[s].user_data.email)
             => users' = users
       /\ \A s \in Sessions :
             SignupEnds(s)
             => Cardinality({u \in users' : u.email = pending[s].user_data.email}) <= 1]_vars

\* Two signups with one email passed the lookups together; the first created
\* the user and the commit of the second was refused
C24_Witness ==
    /\ resp.op = "signup" /\ resp.status = 500
    /\ Cardinality(users) = 1
    /\ \E u \in users : u.email = resp.request.email
    /\ \A s \in Sessions : pending[s].pc = "idle"

\* C25: when the sends on a chat are made one at a time, then after any number
\* of them, failed ones among them, the chat's messages in ascending order of
\* created_at alternate user, assistant, user, assistant, ...: their stamps
\* are all different, the messages at the odd places are user messages and
\* those at the even places assistant messages, and the last is an assistant
\* message.
C25_SequentialSendsAlternate ==
    \A c \in DOMAIN chats :
       LET msgs == MsgsOf(messages, c)
       IN /\ \A m \in msgs, x \in msgs : m # x => m.created_at # x.created_at
          /\ \A m \in msgs :
                m.role = IF Older(msgs, m) % 2 = 0 THEN "user" ELSE "assistant"
          /\ Cardinality(msgs) % 2 = 0

\* The third send on a chat succeeded after the first had succeeded and the
\* second had failed
C25_Witness ==
    /\ resp.op = "send_message" /\ resp.status = 201
    /\ resp.user_message.id = 5
    /\ resp.message_count = 4
    /\ Cardinality(MsgsOf(messages, resp.chat)) = 4

====
